---- MODULE Spec2Model ----
(***************************************************************************)
(* page-tracker: a Flask application with one route, GET /, that           *)
(* increments the Redis key "page_views" and renders the returned count.   *)
(* The model follows page-tracker/web/src/page_tracker/app.py: the route   *)
(* registration, the handler index() with its try/except/else, and the     *)
(* cached client factory redis().  Requests are served by concurrent       *)
(* threads; every step of a handler is one action.                         *)
(***************************************************************************)
EXTENDS Integers, Sequences, FiniteSets, TLC

(***************************************************************************)
(* Bounds of the model.                                                    *)
(***************************************************************************)
MaxReqs == 2

Reqs == 1..MaxReqs

(***************************************************************************)
(* Python values and exceptions.                                           *)
(***************************************************************************)
IntVal(n) == [t |-> "int", i |-> n, s |-> ""]
NoneVal == [t |-> "none", i |-> 0, s |-> ""]
StrVal(x) == [t |-> "str", i |-> 0, s |-> x]
NoVal == [t |-> "unset", i |-> 0, s |-> ""]

Exc(type, msg) == [type |-> type, msg |-> msg]
NoExc == Exc("", "")

\* The classes of redis-py that derive from RedisError.
RedisErrorClasses ==
    {"RedisError", "ConnectionError", "TimeoutError", "ResponseError",
     "BusyLoadingError"}

\* What incr is seen to raise.
IncrErrors ==
    { Exc("ConnectionError", ""), Exc("TimeoutError", ""),
      Exc("ResponseError", "Invalid command"), Exc("BusyLoadingError", ""),
      Exc("Exception", "Unexpected error") }

\* What Redis.from_url is seen to raise.
FromUrlErrors ==
    { Exc("ValueError", "Invalid URL"),
      Exc("ConnectionError", "Connection failed") }

\* What a stubbed incr is seen to return.
StubValues ==
    { IntVal(999999999), NoneVal, StrVal("123") }

(***************************************************************************)
(* Text: str() of an integer, and the formatting of a value in an f-string.*)
(***************************************************************************)
DigitChar(d) ==
    CASE d = 0 -> "0" [] d = 1 -> "1" [] d = 2 -> "2" [] d = 3 -> "3"
      [] d = 4 -> "4" [] d = 5 -> "5" [] d = 6 -> "6" [] d = 7 -> "7"
      [] d = 8 -> "8" [] d = 9 -> "9"

RECURSIVE Digits(_)
Digits(n) ==
    IF n < 10 THEN DigitChar(n) ELSE Digits(n \div 10) \o DigitChar(n % 10)

IntStr(n) == IF n < 0 THEN "-" \o Digits(-n) ELSE Digits(n)

Format(v) ==
    CASE v.t = "int" -> IntStr(v.i)
      [] v.t = "none" -> "None"
      [] v.t = "str" -> v.s

(***************************************************************************)
(* The texts of the responses.  Characters outside ASCII are written by    *)
(* their Unicode names, as the source writes \N{PENSIVE FACE}.             *)
(***************************************************************************)
ApologyBody == "Sorry, something went wrong " \o "{PENSIVE FACE}"

\* A faulty variant: the message of the earlier page_tracker/app.py.
SuccessMessageWrong(page_views) ==
    "This page has been viewed " \o Format(page_views) \o " times"

SuccessMessage(page_views) ==
    ("{PARTY POPPER} This page has been viewed " \o Format(page_views) \o " times! ")
        \o "Thanks for visiting!"

InternalServerErrorPage == "<title>500 Internal Server Error</title>"
MethodNotAllowedPage == "<title>405 Method Not Allowed</title>"
NotFoundPage == "<title>404 Not Found</title>"

Response(status, body) == [status |-> status, body |-> body]
NoResponse == Response(0, "")

(***************************************************************************)
(* Requests.                                                               *)
(***************************************************************************)
\* A request: the request line, and what index() never reads: the query
\* string, the headers (cookies among them) and the body.
RequestWith(method, path, query, headers, body) ==
    [body |-> body, method |-> method, path |-> path, query |-> query,
     headers |-> headers]

Request(method, path, query) == RequestWith(method, path, query, "", "")
NoRequest == Request("", "", "")

Methods == {"GET", "HEAD", "OPTIONS", "POST", "PUT", "DELETE", "PATCH"}

\* The requests of the workload: every method on "/", and another path.
Requests ==
    { Request(m, "/", "") : m \in Methods }
      \cup { Request("GET", "/invalid-route", ""),
             Request("POST", "/invalid-route", "") }

\* GET / plain, with a query string, and with headers, a cookie and a body.
InputRequests ==
    { Request("GET", "/", ""),
      Request("GET", "/", "param1=value1&param2=value2"),
      RequestWith("GET", "/", "", "Content-Type: application/json; Cookie: session=abc",
                  "{}") }

\* A faulty variant: the rule does not accept HEAD.
RouteMethodsWithoutHead == {"GET", "OPTIONS"}

\* A faulty variant: the rule also accepts POST.
RouteMethodsWithPost == {"GET", "HEAD", "OPTIONS", "POST"}

\* @app.get("/"): one rule, "/", for GET; Flask adds HEAD and answers OPTIONS
\* itself.  The path is matched before the method.
RouteMethods == {"GET", "HEAD", "OPTIONS"}

\* Faulty variants: a rule that accepts every method, and one that matches
\* every path.
RouteAnyMethod(q) ==
    IF q.path # "/" THEN "not_found"
    ELSE IF q.method = "OPTIONS" THEN "options"
    ELSE "index"

RouteAnyPath(q) ==
    IF q.method \notin RouteMethods THEN "method_not_allowed"
    ELSE IF q.method = "OPTIONS" THEN "options"
    ELSE "index"

Route(q) ==
    IF q.path # "/" THEN "not_found"
    ELSE IF q.method \notin RouteMethods THEN "method_not_allowed"
    ELSE IF q.method = "OPTIONS" THEN "options"
    ELSE "index"

\* A faulty variant: a request that carries a body is answered 415, as a
\* handler that parsed the body would.
SentUnsupportedMedia(q, resp) ==
    IF q.body # "" /\ resp.status # 0
    THEN Response(415, "<title>415 Unsupported Media Type</title>")
    ELSE IF q.method = "HEAD" THEN Response(resp.status, "") ELSE resp

\* The body as sent: the body of the answer to a HEAD request is dropped.
Sent(q, resp) == IF q.method = "HEAD" THEN Response(resp.status, "") ELSE resp

(***************************************************************************)
(* The store and the environment.                                          *)
(***************************************************************************)
Keys == {"page_views", "test_key_0"}

\* A store is a function from the keys it holds to integers.
NoKeys == [k \in {} |-> 0]

StoreGet(st, k) == IF k \in DOMAIN st THEN st[k] ELSE 0

\* A faulty variant: the value is written only when the key is absent, so a
\* later increment returns the value an earlier one returned.
StoreIncrOnce(st, k) == IF k \in DOMAIN st THEN st ELSE (k :> 1)

\* INCR: an absent key counts as 0.
StoreIncr(st, k) == (k :> (StoreGet(st, k) + 1)) @@ st

StoreDelete(st, k) == [j \in (DOMAIN st) \ {k} |-> st[j]]

InitialStores ==
    { NoKeys, "page_views" :> -2, "page_views" :> 999999 }

\* os.environ is a function from the variables that are set to their values.
NoVariables == [n \in {} |-> ""]

Environments ==
    { NoVariables, "REDIS_URL" :> "redis://custom:6379" }

\* The environments of the client's configuration: REDIS_URL unset, set,
\* set to the empty string, set to an invalid URL, and other variables set
\* with and without it.
ConfigEnvironments ==
    Environments \cup
    { "REDIS_URL" :> "",
      "REDIS_URL" :> "invalid://url",
      "REDIS_HOST" :> "localhost" @@ "REDIS_URL_BACKUP" :> "redis://backup:6379",
      "REDIS_URL" :> "redis://primary:6379" @@ "REDIS_HOST" :> "localhost"
         @@ "REDIS_URL_BACKUP" :> "redis://backup:6379" }

getenv(environ, name, default) ==
    IF name \in DOMAIN environ THEN environ[name] ELSE default

VARIABLES
    environ,      \* os.environ
    mocked,       \* TRUE when the client's incr is a stub (unittest.mock)
    store,        \* the Redis server's keys
    store0,       \* history: the store at the start
    expired,      \* history: the number of times the key was deleted or expired
    cache,        \* functools.cache of redis(): <<>> or <<handle>>
    fromUrlArgs,  \* the arguments of the Redis.from_url calls, in order
    req,          \* per request: the request
    pc,           \* per request: where its thread is
    client,       \* per request: the handle redis() returned (0: none)
    page_views,   \* per request: the value its incr call returned
    exc,          \* per request: the exception raised in the try block
    incrKeys,     \* per request: the keys of its incr calls, in order
    response      \* per request: the response

vars ==
    << environ, mocked, store, store0, expired, cache, fromUrlArgs, req, pc,
       client, page_views, exc, incrKeys, response >>

Init ==
    /\ mocked \in BOOLEAN
    /\ environ \in (IF mocked THEN Environments ELSE {NoVariables})
    /\ store \in (IF mocked THEN {NoKeys} ELSE InitialStores)
    /\ store0 = store
    /\ expired = 0
    /\ cache = <<>>
    /\ fromUrlArgs = <<>>
    /\ req = [r \in Reqs |-> NoRequest]
    /\ pc = [r \in Reqs |-> "idle"]
    /\ client = [r \in Reqs |-> 0]
    /\ page_views = [r \in Reqs |-> NoVal]
    /\ exc = [r \in Reqs |-> NoExc]
    /\ incrKeys = [r \in Reqs |-> <<>>]
    /\ response = [r \in Reqs |-> NoResponse]

(***************************************************************************)
(* Routing: the framework receives a request and either answers it itself  *)
(* (404, 405, OPTIONS) or calls index().  Requests arrive in index order.  *)
(***************************************************************************)
\* A faulty variant: a request routed to index() is answered 200 at once,
\* before its increment is called.
FrameworkResponseEarly(kind) ==
    CASE kind = "not_found" -> Response(404, NotFoundPage)
      [] kind = "method_not_allowed" -> Response(405, MethodNotAllowedPage)
      [] kind = "options" -> Response(200, "")
      [] kind = "index" -> Response(200, "")

FrameworkResponse(kind) ==
    CASE kind = "not_found" -> Response(404, NotFoundPage)
      [] kind = "method_not_allowed" -> Response(405, MethodNotAllowedPage)
      [] kind = "options" -> Response(200, "")
      [] kind = "index" -> NoResponse

Receive(r) ==
    /\ pc[r] = "idle"
    /\ \A j \in Reqs : j < r => pc[j] # "idle"
    /\ \E q \in Requests :
         /\ req' = [req EXCEPT ![r] = q]
         /\ pc' = [pc EXCEPT ![r] = IF Route(q) = "index" THEN "index" ELSE "done"]
         /\ response' = [response EXCEPT ![r] = Sent(q, FrameworkResponse(Route(q)))]
    /\ UNCHANGED << environ, mocked, store, store0, expired, cache, fromUrlArgs,
                    client, page_views, exc, incrKeys >>

(***************************************************************************)
(* redis(): functools.cache around Redis.from_url(os.getenv(...)).  The    *)
(* lookup and the call of the wrapped function are separate steps of the   *)
(* calling thread; the result is stored when the function returns, and     *)
(* nothing is stored when it raises.                                       *)
(***************************************************************************)
DefaultUrl == "redis://localhost:6379"

\* Faulty variants: redis() without @cache.
CacheHitNever(c) == FALSE

CacheHit(c) == c # <<>>

CachePutNever(c, h) == c

CachePut(c, h) == <<h>>

\* A faulty variant: an empty REDIS_URL falls back to the default, as
\* os.getenv("REDIS_URL") or "redis://localhost:6379" would.
ConfiguredUrlEmptyIsUnset(e) ==
    IF getenv(e, "REDIS_URL", "") = "" THEN DefaultUrl ELSE e["REDIS_URL"]

ConfiguredUrl(e) == getenv(e, "REDIS_URL", DefaultUrl)

CacheLookup(r) ==
    /\ pc[r] = "index"
    /\ IF CacheHit(cache)
       THEN /\ client' = [client EXCEPT ![r] = cache[1]]
            /\ pc' = [pc EXCEPT ![r] = "incr"]
       ELSE /\ pc' = [pc EXCEPT ![r] = "from_url"]
            /\ UNCHANGED client
    /\ UNCHANGED << environ, mocked, store, store0, expired, cache, fromUrlArgs,
                    req, page_views, exc, incrKeys, response >>

\* Redis.from_url rejects, with ValueError, a URL whose scheme is not one of
\* these; a patched from_url returns its stub whatever the URL.
SupportedSchemes == {"redis://", "rediss://", "unix://"}

HasPrefix(u, p) == Len(u) >= Len(p) /\ SubSeq(u, 1, Len(p)) = p

ValidUrl(u) == \E p \in SupportedSchemes : HasPrefix(u, p)

FromUrlReturns(r) ==
    /\ pc[r] = "from_url"
    /\ mocked \/ ValidUrl(ConfiguredUrl(environ))
    /\ fromUrlArgs' = Append(fromUrlArgs, ConfiguredUrl(environ))
    /\ cache' = CachePut(cache, Len(fromUrlArgs'))
    /\ client' = [client EXCEPT ![r] = Len(fromUrlArgs')]
    /\ pc' = [pc EXCEPT ![r] = "incr"]
    /\ UNCHANGED << environ, mocked, store, store0, expired, req, page_views,
                    exc, incrKeys, response >>

FromUrlRaises(r) ==
    /\ pc[r] = "from_url"
    /\ fromUrlArgs' = Append(fromUrlArgs, ConfiguredUrl(environ))
    /\ \E e \in FromUrlErrors :
          /\ e.type = "ValueError" => ~ValidUrl(ConfiguredUrl(environ))
          /\ exc' = [exc EXCEPT ![r] = e]
    /\ pc' = [pc EXCEPT ![r] = "raised"]
    /\ UNCHANGED << environ, mocked, store, store0, expired, cache, client, req,
                    page_views, incrKeys, response >>

(***************************************************************************)
(* index(): page_views = redis().incr("page_views") inside try; the except *)
(* clause for RedisError; the else branch.                                 *)
(***************************************************************************)
\* A faulty variant: another key.
IncrKeyWrong == "test_key_0"

IncrKey == "page_views"

\* incr against the Redis server: one atomic INCR.
IncrReturns(r) ==
    /\ pc[r] = "incr"
    /\ ~mocked
    /\ incrKeys' = [incrKeys EXCEPT ![r] = Append(@, IncrKey)]
    /\ store' = StoreIncr(store, IncrKey)
    /\ page_views' = [page_views EXCEPT ![r] = IntVal(store'[IncrKey])]
    /\ pc' = [pc EXCEPT ![r] = "else"]
    /\ UNCHANGED << environ, mocked, store0, expired, cache, fromUrlArgs, req,
                    client, exc, response >>

\* incr of a stubbed client: any configured return value.
IncrStubReturns(r) ==
    /\ pc[r] = "incr"
    /\ mocked
    /\ incrKeys' = [incrKeys EXCEPT ![r] = Append(@, IncrKey)]
    /\ \E v \in StubValues : page_views' = [page_views EXCEPT ![r] = v]
    /\ pc' = [pc EXCEPT ![r] = "else"]
    /\ UNCHANGED << environ, mocked, store, store0, expired, cache, fromUrlArgs,
                    req, client, exc, response >>

IncrRaises(r) ==
    /\ pc[r] = "incr"
    /\ incrKeys' = [incrKeys EXCEPT ![r] = Append(@, IncrKey)]
    /\ \E e \in IncrErrors : exc' = [exc EXCEPT ![r] = e]
    /\ pc' = [pc EXCEPT ![r] = "raised"]
    /\ UNCHANGED << environ, mocked, store, store0, expired, cache, fromUrlArgs,
                    req, client, page_views, response >>

\* Faulty variants: except ConnectionError, and except Exception.
CaughtConnectionErrorOnly(e) == e.type = "ConnectionError"

CaughtAll(e) == TRUE

\* except RedisError: the exception is an instance of RedisError or a subclass.
Caught(e) == e.type \in RedisErrorClasses

ErrorResponse == Response(500, ApologyBody)

\* A faulty variant: a value that is not an integer is answered as a store
\* error.
SuccessResponseIntOnly(v) ==
    IF v.t = "int" THEN Response(200, SuccessMessage(v)) ELSE ErrorResponse

SuccessResponse(v) == Response(200, SuccessMessage(v))

\* index() is left: the thread's references to the client and to the
\* exception are dropped.
Return(r) ==
    /\ pc' = [pc EXCEPT ![r] = "done"]
    /\ client' = [client EXCEPT ![r] = 0]
    /\ exc' = [exc EXCEPT ![r] = NoExc]

\* A faulty variant: the handler drops the cached client when it catches a
\* store error, as a redis.cache_clear() in the except clause would.
ExceptDropsClient(r) ==
    /\ pc[r] = "raised"
    /\ Caught(exc[r])
    /\ response' = [response EXCEPT ![r] = Sent(req[r], ErrorResponse)]
    /\ cache' = <<>>
    /\ Return(r)
    /\ UNCHANGED << environ, mocked, store, store0, expired, fromUrlArgs,
                    req, page_views, incrKeys >>

Except(r) ==
    /\ pc[r] = "raised"
    /\ Caught(exc[r])
    /\ response' = [response EXCEPT ![r] = Sent(req[r], ErrorResponse)]
    /\ Return(r)
    /\ UNCHANGED << environ, mocked, store, store0, expired, cache, fromUrlArgs,
                    req, page_views, incrKeys >>

\* An exception no clause matches leaves index(); Flask answers 500.
Unhandled(r) ==
    /\ pc[r] = "raised"
    /\ ~Caught(exc[r])
    /\ response' = [response EXCEPT ![r] =
                       Sent(req[r], Response(500, InternalServerErrorPage))]
    /\ Return(r)
    /\ UNCHANGED << environ, mocked, store, store0, expired, cache, fromUrlArgs,
                    req, page_views, incrKeys >>

\* A faulty variant: the value is kept in a variable the requests share, so
\* the message may carry the value another request's increment returned.
ElseShared(r) ==
    /\ pc[r] = "else"
    /\ \E j \in Reqs :
          /\ page_views[j] # NoVal
          /\ response' = [response EXCEPT ![r] = Sent(req[r], SuccessResponse(page_views[j]))]
    /\ Return(r)
    /\ UNCHANGED << environ, mocked, store, store0, expired, cache, fromUrlArgs,
                    req, page_views, incrKeys >>

Else(r) ==
    /\ pc[r] = "else"
    /\ response' = [response EXCEPT ![r] = Sent(req[r], SuccessResponse(page_views[r]))]
    /\ Return(r)
    /\ UNCHANGED << environ, mocked, store, store0, expired, cache, fromUrlArgs,
                    req, page_views, incrKeys >>

(***************************************************************************)
(* The store outside the application: the key is deleted or expires.       *)
(***************************************************************************)
Expire ==
    /\ ~mocked
    /\ "page_views" \in DOMAIN store
    /\ store' = StoreDelete(store, "page_views")
    /\ expired' = expired + 1
    /\ UNCHANGED << environ, mocked, store0, cache, fromUrlArgs, req, pc, client,
                    page_views, exc, incrKeys, response >>

Next ==
    \/ \E r \in Reqs : Receive(r)
    \/ \E r \in Reqs : CacheLookup(r)
    \/ \E r \in Reqs : FromUrlReturns(r)
    \/ \E r \in Reqs : FromUrlRaises(r)
    \/ \E r \in Reqs : IncrReturns(r)
    \/ \E r \in Reqs : IncrStubReturns(r)
    \/ \E r \in Reqs : IncrRaises(r)
    \/ \E r \in Reqs : Except(r)
    \/ \E r \in Reqs : Unhandled(r)
    \/ \E r \in Reqs : Else(r)
    \/ Expire

Spec == Init /\ [][Next]_vars

(***************************************************************************)
(* The handler under GET / requests that differ in query string, headers,  *)
(* cookies and body, with a stubbed client.                                *)
(***************************************************************************)
ReceiveFrom(r, workload) ==
    /\ pc[r] = "idle"
    /\ \A j \in Reqs : j < r => pc[j] # "idle"
    /\ \E q \in workload :
         /\ req' = [req EXCEPT ![r] = q]
         /\ pc' = [pc EXCEPT ![r] = IF Route(q) = "index" THEN "index" ELSE "done"]
         /\ response' = [response EXCEPT ![r] = Sent(q, FrameworkResponse(Route(q)))]
    /\ UNCHANGED << environ, mocked, store, store0, expired, cache, fromUrlArgs,
                    client, page_views, exc, incrKeys >>

ReceiveInput(r) == ReceiveFrom(r, InputRequests)

InitInputs ==
    /\ mocked = TRUE
    /\ environ = NoVariables
    /\ store = NoKeys
    /\ store0 = store
    /\ expired = 0
    /\ cache = <<>>
    /\ fromUrlArgs = <<>>
    /\ req = [r \in Reqs |-> NoRequest]
    /\ pc = [r \in Reqs |-> "idle"]
    /\ client = [r \in Reqs |-> 0]
    /\ page_views = [r \in Reqs |-> NoVal]
    /\ exc = [r \in Reqs |-> NoExc]
    /\ incrKeys = [r \in Reqs |-> <<>>]
    /\ response = [r \in Reqs |-> NoResponse]

NextInputs ==
    \/ \E r \in Reqs : ReceiveInput(r)
    \/ \E r \in Reqs : CacheLookup(r)
    \/ \E r \in Reqs : FromUrlReturns(r)
    \/ \E r \in Reqs : FromUrlRaises(r)
    \/ \E r \in Reqs : IncrStubReturns(r)
    \/ \E r \in Reqs : IncrRaises(r)
    \/ \E r \in Reqs : Except(r)
    \/ \E r \in Reqs : Unhandled(r)
    \/ \E r \in Reqs : Else(r)

SpecInputs == InitInputs /\ [][NextInputs]_vars

(***************************************************************************)
(* The client's configuration: GET / requests under every environment,     *)
(* with Redis.from_url patched.                                            *)
(***************************************************************************)
ReceiveGet(r) == ReceiveFrom(r, {Request("GET", "/", "")})

InitEnv ==
    /\ mocked = TRUE
    /\ environ \in ConfigEnvironments
    /\ store = NoKeys
    /\ store0 = store
    /\ expired = 0
    /\ cache = <<>>
    /\ fromUrlArgs = <<>>
    /\ req = [r \in Reqs |-> NoRequest]
    /\ pc = [r \in Reqs |-> "idle"]
    /\ client = [r \in Reqs |-> 0]
    /\ page_views = [r \in Reqs |-> NoVal]
    /\ exc = [r \in Reqs |-> NoExc]
    /\ incrKeys = [r \in Reqs |-> <<>>]
    /\ response = [r \in Reqs |-> NoResponse]

NextEnv ==
    \/ \E r \in Reqs : ReceiveGet(r)
    \/ \E r \in Reqs : CacheLookup(r)
    \/ \E r \in Reqs : FromUrlReturns(r)
    \/ \E r \in Reqs : FromUrlRaises(r)
    \/ \E r \in Reqs : IncrStubReturns(r)
    \/ \E r \in Reqs : IncrRaises(r)
    \/ \E r \in Reqs : Except(r)
    \/ \E r \in Reqs : Unhandled(r)
    \/ \E r \in Reqs : Else(r)

SpecEnv == InitEnv /\ [][NextEnv]_vars

(***************************************************************************)
(* The same, with REDIS_URL set and unset while the process runs.          *)
(***************************************************************************)
SetEnv ==
    /\ \E e \in Environments : e # environ /\ environ' = e
    /\ UNCHANGED << mocked, store, store0, expired, cache, fromUrlArgs, req, pc,
                    client, page_views, exc, incrKeys, response >>

InitEnvChange ==
    /\ mocked = TRUE
    /\ environ \in Environments
    /\ store = NoKeys
    /\ store0 = store
    /\ expired = 0
    /\ cache = <<>>
    /\ fromUrlArgs = <<>>
    /\ req = [r \in Reqs |-> NoRequest]
    /\ pc = [r \in Reqs |-> "idle"]
    /\ client = [r \in Reqs |-> 0]
    /\ page_views = [r \in Reqs |-> NoVal]
    /\ exc = [r \in Reqs |-> NoExc]
    /\ incrKeys = [r \in Reqs |-> <<>>]
    /\ response = [r \in Reqs |-> NoResponse]

NextEnvChange ==
    \/ NextEnv
    \/ SetEnv

SpecEnvChange == InitEnvChange /\ [][NextEnvChange]_vars

(***************************************************************************)
(* Vocabulary of the properties.                                           *)
(***************************************************************************)
GetRoot(r) == req[r].method = "GET" /\ req[r].path = "/"

Done(r) == pc[r] = "done"

\* The step in which request r's incr call resolves, and the one in which
\* index() returns its response.
IncrResolves(r) == pc[r] = "incr" /\ pc'[r] # "incr"
IndexReturns(r) == pc[r] \in {"else", "raised"} /\ pc'[r] = "done"

\* The request's incr call was made and raised.
IncrRaised(r) == pc[r] = "raised" /\ incrKeys[r] # <<>>

Counter(st) == IF "page_views" \in DOMAIN st THEN st["page_views"] ELSE 0

SuccessText(n) ==
    "{PARTY POPPER} This page has been viewed " \o n \o " times! Thanks for visiting!"

ApologyText == "Sorry, something went wrong {PENSIVE FACE}"

(***************************************************************************)
(* C1: whenever the incr call of a GET / request returned an integer n,    *)
(* the response is 200 with the body                                       *)
(* '{PARTY POPPER} This page has been viewed n times! Thanks for           *)
(* visiting!', n being the decimal text of the value that request's incr   *)
(* call returned; 0, negative and large values included.                   *)
(***************************************************************************)
C1_SuccessBody ==
    \A r \in Reqs :
        (Done(r) /\ GetRoot(r) /\ page_views[r].t = "int") =>
            /\ response[r].status = 200
            /\ response[r].body = SuccessText(IntStr(page_views[r].i))
            /\ (page_views[r].i = 0 => response[r].body = SuccessText("0"))
            /\ (page_views[r].i = -1 => response[r].body = SuccessText("-1"))
            /\ (page_views[r].i = 1000000 => response[r].body = SuccessText("1000000"))
            /\ (page_views[r].i = 999999999 =>
                    response[r].body = SuccessText("999999999"))

C1_Witness ==
    \E r1, r2 \in Reqs :
        /\ Done(r1) /\ GetRoot(r1) /\ page_views[r1] = IntVal(-1)
        /\ Done(r2) /\ GetRoot(r2) /\ page_views[r2] = IntVal(0)
        /\ response[r1].status = 200 /\ response[r2].status = 200

(***************************************************************************)
(* C2: when the incr call of a GET / request raises a RedisError           *)
(* (ConnectionError, TimeoutError, ResponseError, BusyLoadingError), the   *)
(* response is 500 with exactly the apology text, the same for every       *)
(* error type and message.                                                 *)
(***************************************************************************)
C2_RedisErrorApology ==
    [][ \A r \in Reqs :
          ( /\ IncrRaised(r) /\ GetRoot(r) /\ IndexReturns(r)
            /\ exc[r].type \in {"ConnectionError", "TimeoutError", "ResponseError",
                                "BusyLoadingError"} )
          => response'[r] = [status |-> 500, body |-> ApologyText] ]_vars

C2_Witness ==
    \E r \in Reqs :
        /\ Done(r) /\ GetRoot(r) /\ incrKeys[r] # <<>>
        /\ response[r] = [status |-> 500, body |-> ApologyText]

(***************************************************************************)
(* C3 as stated: every GET / request whose incr call was made ends as      *)
(* Success(n) or as Failure(apology), whatever incr raised.                *)
(***************************************************************************)
C3_AnyExceptionCaught ==
    \A r \in Reqs :
        (Done(r) /\ GetRoot(r) /\ incrKeys[r] # <<>>) =>
            \/ response[r].status = 200
            \/ response[r] = [status |-> 500, body |-> ApologyText]

(***************************************************************************)
(* C3 amended: a RedisError of any subclass raised by incr is caught and   *)
(* ends as 500 with the apology; an exception that is not a RedisError     *)
(* leaves the handler and the framework answers 500 with its generic page; *)
(* a returned value ends as 200.  No other outcome exists.                 *)
(***************************************************************************)
C3_OnlyRedisErrorCaught ==
    [][ \A r \in Reqs :
          (IndexReturns(r) /\ GetRoot(r) /\ incrKeys[r] # <<>>) =>
            /\ (pc[r] = "else" => response'[r].status = 200)
            /\ (pc[r] = "raised" /\ exc[r].type \in RedisErrorClasses =>
                    response'[r] = [status |-> 500, body |-> ApologyText])
            /\ (pc[r] = "raised" /\ exc[r].type \notin RedisErrorClasses =>
                    /\ response'[r].status = 500
                    /\ response'[r].body = InternalServerErrorPage
                    /\ response'[r].body # ApologyText) ]_vars

C3_Witness ==
    \E r1, r2 \in Reqs :
        /\ Done(r1) /\ GetRoot(r1) /\ incrKeys[r1] # <<>>
        /\ response[r1] = [status |-> 500, body |-> ApologyText]
        /\ Done(r2) /\ GetRoot(r2) /\ incrKeys[r2] # <<>>
        /\ response[r2] = [status |-> 500, body |-> InternalServerErrorPage]

(***************************************************************************)
(* C4 as stated: every GET / request that reached the handler has invoked  *)
(* incr exactly once, with the key 'page_views'.                           *)
(***************************************************************************)
C4_ExactlyOncePerRequest ==
    \A r \in Reqs :
        (Done(r) /\ GetRoot(r)) => incrKeys[r] = <<"page_views">>

(***************************************************************************)
(* C4 amended: a GET / request invokes incr exactly once, with the key     *)
(* 'page_views', when redis() returned a client, whether the call returns  *)
(* or raises, and no other step of the handler invokes it: there is no     *)
(* retry, and no call at all when redis() itself raised.                   *)
(***************************************************************************)
C4_OncePerObtainedClient ==
    [][ \A r \in Reqs :
          /\ IncrResolves(r) => incrKeys'[r] = <<"page_views">>
          /\ ~IncrResolves(r) => incrKeys'[r] = incrKeys[r]
          /\ (pc[r] = "from_url" /\ pc'[r] = "raised") => incrKeys'[r] = <<>>
          /\ (GetRoot(r) /\ IndexReturns(r) /\ response'[r].status = 200) =>
                 incrKeys'[r] = <<"page_views">> ]_vars

C4_Witness ==
    \E r1, r2 \in Reqs :
        /\ Done(r1) /\ GetRoot(r1) /\ response[r1].status = 500
        /\ incrKeys[r1] = <<"page_views">>
        /\ Done(r2) /\ GetRoot(r2) /\ response[r2].status = 500
        /\ incrKeys[r2] = <<>>

(***************************************************************************)
(* C5: with no other writer, the store counter equals its initial value    *)
(* plus the number of increments that succeeded, in every interleaving;    *)
(* when all N requests are GET / and all increments succeeded, every       *)
(* response is 200 and the counter is v + N.                               *)
(***************************************************************************)
C5_NoLostIncrement ==
    (~mocked /\ expired = 0) =>
        LET ok == {r \in Reqs : page_views[r] # NoVal} IN
          /\ Counter(store) = Counter(store0) + Cardinality(ok)
          /\ \A r \in ok : (Done(r) /\ GetRoot(r)) => response[r].status = 200
          /\ (\A r \in Reqs : GetRoot(r) /\ Done(r) /\ r \in ok) =>
                 Counter(store) = Counter(store0) + MaxReqs

\* All requests are in flight at once, each with its increment applied.
C5_Witness ==
    /\ ~mocked /\ expired = 0
    /\ \A r \in Reqs : GetRoot(r) /\ pc[r] = "else"
    /\ Counter(store) = Counter(store0) + MaxReqs

(***************************************************************************)
(* C6: an increment that succeeds against a store holding v (an absent or  *)
(* expired key counting as 0) leaves v + 1 in the store and returns v + 1, *)
(* which the response embeds; the i-th request of a sequential series      *)
(* without expiry shows v + i.                                             *)
(***************************************************************************)
C6_IncrementFromStoredValue ==
    [][ \A r \in Reqs :
          /\ (IncrResolves(r) /\ pc'[r] = "else" /\ ~mocked) =>
               /\ page_views'[r] = IntVal(Counter(store) + 1)
               /\ "page_views" \in DOMAIN store'
               /\ store'["page_views"] = Counter(store) + 1
               /\ ( ( /\ expired = 0
                      /\ \A j \in Reqs : j < r => Done(j) /\ page_views[j] # NoVal
                      /\ \A j \in Reqs : j > r => page_views[j] = NoVal )
                    => page_views'[r] = IntVal(Counter(store0) + r) )
          /\ (pc[r] = "else" /\ pc'[r] = "done" /\ GetRoot(r) /\ ~mocked) =>
               /\ page_views'[r] = page_views[r]
               /\ response'[r] =
                    [status |-> 200, body |-> SuccessText(IntStr(page_views[r].i))] ]_vars

\* From -2: the first request shows -1, the key expires, the second shows 1.
C6_Witness ==
    \E r1, r2 \in Reqs :
        /\ r1 < r2 /\ ~mocked /\ expired = 1
        /\ Done(r1) /\ GetRoot(r1) /\ page_views[r1] = IntVal(-1)
        /\ Done(r2) /\ GetRoot(r2) /\ page_views[r2] = IntVal(1)
        /\ response[r1].body = SuccessText("-1")
        /\ response[r2].body = SuccessText("1")
        /\ Counter(store) = 1

(***************************************************************************)
(* What a step of request r must leave alone when the framework answers    *)
(* the request itself: the store, the client cache, the from_url calls,    *)
(* every incr log and return value, and every other request.               *)
(***************************************************************************)
Received(r) == pc[r] = "idle" /\ pc'[r] # "idle"

NoSideEffect(r) ==
    /\ store' = store
    /\ cache' = cache
    /\ fromUrlArgs' = fromUrlArgs
    /\ incrKeys' = incrKeys
    /\ page_views' = page_views
    /\ \A j \in Reqs \ {r} : pc'[j] = pc[j] /\ response'[j] = response[j]

(***************************************************************************)
(* C7 as stated: every request to / with a method other than GET is        *)
(* answered 405 and has not invoked incr.                                  *)
(***************************************************************************)
C7_NonGetRejected ==
    \A r \in Reqs :
        (Done(r) /\ req[r].path = "/" /\ req[r].method # "GET") =>
            response[r].status = 405 /\ incrKeys[r] = <<>>

(***************************************************************************)
(* C7 amended: every request to / with a method other than GET, HEAD and   *)
(* OPTIONS is answered 405 and never invokes incr.                         *)
(***************************************************************************)
C7_OtherMethodsRejected ==
    \A r \in Reqs :
        (pc[r] # "idle" /\ req[r].path = "/"
            /\ req[r].method \notin {"GET", "HEAD", "OPTIONS"}) =>
            /\ Done(r)
            /\ response[r].status = 405
            /\ incrKeys[r] = <<>>
            /\ page_views[r] = NoVal

C7_Witness ==
    \E r1, r2 \in Reqs :
        /\ Done(r1) /\ req[r1] = Request("DELETE", "/", "")
        /\ response[r1].status = 405 /\ incrKeys[r1] = <<>>
        /\ Done(r2) /\ req[r2] = Request("HEAD", "/", "")
        /\ response[r2].status = 200 /\ incrKeys[r2] = <<"page_views">>

(***************************************************************************)
(* C8: a POST, PUT, DELETE or PATCH request to / is answered 405 in the    *)
(* step that receives it, the handler never runs, and the step changes     *)
(* neither the store nor any other request: a GET before or after it gets  *)
(* the count it would have got without it.                                 *)
(***************************************************************************)
C8_RejectedLeavesCounter ==
    [][ \A r \in Reqs :
          ( /\ Received(r) /\ req'[r].path = "/"
            /\ req'[r].method \in {"POST", "PUT", "DELETE", "PATCH"} )
          => /\ pc'[r] = "done"
             /\ response'[r].status = 405
             /\ NoSideEffect(r) ]_vars

\* A POST, then a GET, against a store holding 999999: the POST is answered
\* 405 and the GET after it shows 1000000.
C8_Witness ==
    \E r1, r2 \in Reqs :
        /\ r1 < r2 /\ ~mocked /\ expired = 0 /\ Counter(store0) = 999999
        /\ Done(r1) /\ req[r1] = Request("POST", "/", "")
        /\ response[r1].status = 405
        /\ Done(r2) /\ GetRoot(r2) /\ response[r2].body = SuccessText("1000000")
        /\ Counter(store) = 1000000

(***************************************************************************)
(* C9: a request to a path other than / is answered 404 in the step that   *)
(* receives it, whatever its method, and the step invokes no incr and      *)
(* leaves the counter unchanged.                                           *)
(***************************************************************************)
C9_OtherPathNotFound ==
    [][ \A r \in Reqs :
          (Received(r) /\ req'[r].path # "/")
          => /\ pc'[r] = "done"
             /\ response'[r].status = 404
             /\ NoSideEffect(r) ]_vars

C9_Witness ==
    \E r1, r2 \in Reqs :
        /\ r1 < r2 /\ ~mocked /\ expired = 0
        /\ Done(r1) /\ GetRoot(r1) /\ response[r1].status = 200
        /\ Done(r2) /\ req[r2] = Request("POST", "/invalid-route", "")
        /\ response[r2].status = 404 /\ incrKeys[r2] = <<>>
        /\ Counter(store) = Counter(store0) + 1

(***************************************************************************)
(* C10: once redis() has returned a client and no construction is in       *)
(* flight, every later call returns the cached handle without calling      *)
(* Redis.from_url, and no step replaces the cached handle; the call that   *)
(* constructs a client caches the handle it returns.                       *)
(***************************************************************************)
C10_CachedClient ==
    [][ /\ \A r \in Reqs :
             /\ (pc[r] = "from_url" /\ pc'[r] = "incr") =>
                    cache' = <<client'[r]>> /\ client'[r] = Len(fromUrlArgs')
             /\ (pc[r] = "index" /\ pc'[r] # "index" /\ cache # <<>>) =>
                    /\ pc'[r] = "incr"
                    /\ client'[r] = cache[1]
                    /\ cache' = cache
                    /\ fromUrlArgs' = fromUrlArgs
        /\ (cache # <<>> /\ \A j \in Reqs : pc[j] # "from_url") =>
               /\ cache' = cache
               /\ fromUrlArgs' = fromUrlArgs
               /\ \A j \in Reqs : pc'[j] # "from_url" ]_vars

\* The first request constructed the client and completed; a later request
\* holds the same handle, and from_url was called once.
C10_Witness ==
    \E r1, r2 \in Reqs :
        /\ r1 < r2
        /\ Done(r1) /\ incrKeys[r1] # <<>>
        /\ pc[r2] = "incr" /\ client[r2] = 1
        /\ cache = <<1>>
        /\ Len(fromUrlArgs) = 1

(***************************************************************************)
(* C11.  Every argument passed to Redis.from_url is the value of REDIS_URL *)
(* as it stands in the environment whenever the variable is set, the empty *)
(* string and an invalid URL included and whatever REDIS_HOST or           *)
(* REDIS_URL_BACKUP hold, and it is 'redis://localhost:6379' exactly when  *)
(* REDIS_URL is unset.                                                     *)
(***************************************************************************)
C11_UrlVerbatimOrDefault ==
    \A i \in 1..Len(fromUrlArgs) :
       /\ "REDIS_URL" \in DOMAIN environ => fromUrlArgs[i] = environ["REDIS_URL"]
       /\ "REDIS_URL" \notin DOMAIN environ => fromUrlArgs[i] = "redis://localhost:6379"
       /\ fromUrlArgs[i] = "redis://localhost:6379" => "REDIS_URL" \notin DOMAIN environ

\* A client was built from the empty REDIS_URL and has served a request.
C11_Witness ==
    /\ "REDIS_URL" \in DOMAIN environ
    /\ environ["REDIS_URL"] = ""
    /\ fromUrlArgs = <<"">>
    /\ \E r \in Reqs : Done(r) /\ GetRoot(r) /\ response[r].status = 200

\* A client was built from the default although REDIS_HOST and
\* REDIS_URL_BACKUP are set.
C11_WitnessOtherVariables ==
    /\ DOMAIN environ = {"REDIS_HOST", "REDIS_URL_BACKUP"}
    /\ fromUrlArgs = <<"redis://localhost:6379">>
    /\ cache = <<1>>

(***************************************************************************)
(* C12.  The answer to a GET / request is decided by the outcome of its    *)
(* store call alone, not by its query string, headers, cookies or body:    *)
(* when it returns with the value an already answered GET / request had    *)
(* been given, its status and body are those of that request, whatever the *)
(* two carried; when its call raised, status and body follow from the      *)
(* exception alone; and whenever the increment was called it was called    *)
(* once, on 'page_views'.                                                  *)
(***************************************************************************)
C12_InputsIgnored ==
    [][ \A r1 \in Reqs :
          (IndexReturns(r1) /\ GetRoot(r1)) =>
             /\ \A r2 \in Reqs \ {r1} :
                   ( /\ GetRoot(r2) /\ Done(r2)
                     /\ pc[r1] = "else"
                     /\ page_views[r2] = page_views[r1] ) =>
                        /\ response'[r1] = response[r2]
                        /\ incrKeys'[r1] = incrKeys[r2]
             /\ pc[r1] = "raised" =>
                   response'[r1] =
                      IF exc[r1].type \in {"RedisError", "ConnectionError", "TimeoutError",
                                           "ResponseError", "BusyLoadingError"}
                      THEN Response(500, ApologyText)
                      ELSE Response(500, "<title>500 Internal Server Error</title>")
             /\ incrKeys'[r1] \in {<<>>, <<"page_views">>}
             /\ pc[r1] = "else" => incrKeys'[r1] = <<"page_views">>
      ]_vars

\* Two answered GET / requests, one plain and one with headers, a cookie and
\* a body, were given the same value and carry the same answer.
C12_Witness ==
    \E r1, r2 \in Reqs :
       /\ Done(r1) /\ Done(r2)
       /\ req[r1] = Request("GET", "/", "")
       /\ req[r2].path = "/" /\ req[r2].method = "GET" /\ req[r2].body # ""
       /\ page_views[r1] = NoneVal /\ page_views[r2] = NoneVal
       /\ response[r1] = response[r2]
       /\ response[r1].status = 200

(***************************************************************************)
(* C13.  A GET / request during which redis() itself raised, whatever the  *)
(* type of the error raised by the construction, is answered with status   *)
(* 500 and the fixed apology body.                                         *)
(***************************************************************************)
C13_ConstructionFailureApology ==
    \A r \in Reqs :
       (Done(r) /\ GetRoot(r) /\ incrKeys[r] = <<>>) =>
          response[r] = Response(500, ApologyText)

(***************************************************************************)
(* C14.  A GET / request has no response while its handler has yet to call *)
(* incr or waits for it; its response is produced in a step taken after    *)
(* the call has returned or raised; and a response with status 200 is      *)
(* produced when the call has returned a value, which, against the server, *)
(* is a value the counter had reached by then.                             *)
(***************************************************************************)
C14_ResponseAfterIncrement ==
    [][ \A r \in Reqs :
          (req'[r].method = "GET" /\ req'[r].path = "/") =>
             /\ pc'[r] \in {"idle", "index", "from_url", "incr"} =>
                   response'[r] = NoResponse
             /\ response'[r] # response[r] =>
                   /\ pc[r] \in {"else", "raised"}
                   /\ pc[r] = "raised" \/ incrKeys[r] = <<"page_views">>
                   /\ response'[r].status = 200 =>
                         /\ pc[r] = "else"
                         /\ page_views[r] # NoVal
                         /\ (~mocked /\ expired = 0) =>
                               /\ page_views[r].i > Counter(store0)
                               /\ Counter(store) >= page_views[r].i
      ]_vars

\* Against the server, one GET / request has its 200 response and the counter
\* holds its increment, while a later one still waits for its incr call.
C14_Witness ==
    \E r1, r2 \in Reqs :
       /\ ~mocked /\ expired = 0
       /\ GetRoot(r1) /\ Done(r1) /\ response[r1].status = 200
       /\ Counter(store) = Counter(store0) + 1
       /\ page_views[r1] = IntVal(Counter(store))
       /\ GetRoot(r2) /\ pc[r2] = "incr" /\ response[r2] = NoResponse

C16_SingleConstruction ==
    \A r1, r2 \in Reqs :
       (client[r1] # 0 /\ client[r2] # 0) =>
          /\ client[r1] = client[r2]
          /\ cache = <<client[r1]>>

(***************************************************************************)
(* C17.  Requests in flight share no value: the step in which a request's  *)
(* incr call resolves, and the one in which it is answered, leave every    *)
(* other request's value and response as they were, and the 200 response   *)
(* of a GET / request carries the text of the value its own call returned, *)
(* not that of a different value held by another request.                  *)
(***************************************************************************)
C17_OwnValueEmbedded ==
    [][ \A r \in Reqs :
          /\ (IncrResolves(r) \/ IndexReturns(r)) =>
                \A j \in Reqs \ {r} :
                   page_views'[j] = page_views[j] /\ response'[j] = response[j]
          /\ (GetRoot(r) /\ pc[r] = "else" /\ pc'[r] = "done") =>
                /\ response'[r] = Response(200, SuccessText(Format(page_views[r])))
                /\ \A j \in Reqs \ {r} :
                      (page_views[j] # NoVal /\ page_views[j] # page_views[r]) =>
                         response'[r].body # SuccessText(Format(page_views[j]))
      ]_vars

\* Against the server, the request that arrived second incremented first, and
\* each of the two answers carries its own request's value.
C17_Witness ==
    \E r1, r2 \in Reqs :
       /\ r1 < r2 /\ ~mocked
       /\ GetRoot(r1) /\ GetRoot(r2) /\ Done(r1) /\ Done(r2)
       /\ page_views[r1] # NoVal /\ page_views[r2] # NoVal
       /\ page_views[r1].i = page_views[r2].i + 1
       /\ response[r1].body = SuccessText(IntStr(page_views[r1].i))
       /\ response[r2].body = SuccessText(IntStr(page_views[r2].i))
       /\ response[r1].body # response[r2].body

(***************************************************************************)
(* C18.  A GET / request whose incr call raised an exception that is not a *)
(* RedisError is answered by the framework, not by the handler: the status *)
(* is 500, the body is the generic Internal Server Error page and not the  *)
(* apology, and the request holds no value.                                *)
(***************************************************************************)
C18_GenericExceptionUncaught ==
    [][ \A r \in Reqs :
          ( /\ GetRoot(r) /\ IncrRaised(r) /\ pc'[r] # "raised"
            /\ exc[r].type \notin {"RedisError", "ConnectionError", "TimeoutError",
                                   "ResponseError", "BusyLoadingError"} ) =>
             /\ pc'[r] = "done"
             /\ response'[r].status = 500
             /\ response'[r].body = "<title>500 Internal Server Error</title>"
             /\ response'[r].body # "Sorry, something went wrong {PENSIVE FACE}"
             /\ page_views'[r] = NoVal
             /\ store' = store
      ]_vars

\* A GET / request called incr, which raised Exception, and was answered with
\* the generic page.
C18_Witness ==
    \E r \in Reqs :
       /\ Done(r) /\ GetRoot(r)
       /\ incrKeys[r] = <<"page_views">>
       /\ page_views[r] = NoVal
       /\ response[r] = Response(500, "<title>500 Internal Server Error</title>")

C20_NonIntegerSuccess ==
    \A r \in Reqs :
       (Done(r) /\ GetRoot(r)) =>
          /\ page_views[r].t = "none" =>
                response[r] =
                   Response(200, "{PARTY POPPER} This page has been viewed None times! "
                                    \o "Thanks for visiting!")
          /\ page_views[r].t = "str" =>
                /\ response[r] = Response(200, SuccessText(page_views[r].s))
                /\ page_views[r].s = "123" =>
                      response[r].body =
                         "{PARTY POPPER} This page has been viewed 123 times! "
                            \o "Thanks for visiting!"

\* One answered GET / request was given None and another the string '123'.
C20_Witness ==
    \E r1, r2 \in Reqs :
       /\ Done(r1) /\ GetRoot(r1) /\ page_views[r1] = NoneVal
       /\ response[r1].status = 200
       /\ Done(r2) /\ GetRoot(r2) /\ page_views[r2] = StrVal("123")
       /\ response[r2].status = 200

(***************************************************************************)
(* C21.  Against the server, with no expiry and no writer but the GET /    *)
(* requests themselves: whenever the N requests whose increments returned  *)
(* are all answered, their values are pairwise distinct and are exactly    *)
(* v+1, ..., v+N for the initial counter v, and each response carries the  *)
(* text of its request's value, so no count is reported twice or skipped.  *)
(***************************************************************************)
C21_DistinctConsecutiveCounts ==
    LET ok == {r \in Reqs : page_views[r] # NoVal}
        v == Counter(store0)
    IN  ( /\ ~mocked /\ expired = 0
          /\ \A r \in ok : GetRoot(r) /\ Done(r) ) =>
            /\ {page_views[r].i : r \in ok} = (v + 1)..(v + Cardinality(ok))
            /\ \A r1, r2 \in ok : r1 # r2 => page_views[r1].i # page_views[r2].i
            /\ \A r \in ok :
                  response[r] = Response(200, SuccessText(IntStr(page_views[r].i)))
            /\ \A r1, r2 \in ok : r1 # r2 => response[r1].body # response[r2].body

\* All requests are GET /, all were in flight together and are answered 200,
\* and the last to arrive reports the first count.
C21_Witness ==
    /\ ~mocked /\ expired = 0
    /\ \A r \in Reqs : GetRoot(r) /\ Done(r) /\ response[r].status = 200
    /\ page_views[MaxReqs] = IntVal(Counter(store0) + 1)
    /\ {page_views[r].i : r \in Reqs} = (Counter(store0) + 1)..(Counter(store0) + MaxReqs)
    /\ Counter(store0) = 999999

(***************************************************************************)
(* C22.  A GET / request whose incr call raised a RedisError is answered   *)
(* 500 with the apology, and neither the raising call nor the answer       *)
(* touches the cached handle or the counter.  Once such a request has been *)
(* answered, a call of redis() by a GET / request returns the cached       *)
(* handle; an increment that then returns has, against the server,         *)
(* advanced the counter by one and returns the new value; and the request  *)
(* is answered 200 with that value.                                        *)
(***************************************************************************)
C22_NoStickyFailure ==
    [][ LET Failed(r1) ==
               /\ Done(r1) /\ GetRoot(r1)
               /\ incrKeys[r1] # <<>>
               /\ response[r1] = Response(500, ApologyText)
        IN
        \A r \in Reqs :
          GetRoot(r) =>
             /\ (IncrResolves(r) /\ pc'[r] = "raised") =>
                   cache' = cache /\ cache # <<>> /\ store' = store
             /\ ( /\ IncrRaised(r) /\ IndexReturns(r)
                  /\ exc[r].type \in {"RedisError", "ConnectionError", "TimeoutError",
                                      "ResponseError", "BusyLoadingError"} ) =>
                   /\ response'[r] = Response(500, ApologyText)
                   /\ cache' = cache /\ cache # <<>> /\ store' = store
             /\ (\E r1 \in Reqs \ {r} : Failed(r1)) =>
                   /\ (pc[r] = "index" /\ pc'[r] # "index") =>
                         pc'[r] = "incr" /\ client'[r] = cache[1] /\ cache' = cache
                   /\ (IncrResolves(r) /\ pc'[r] = "else" /\ ~mocked) =>
                         /\ Counter(store') = Counter(store) + 1
                         /\ page_views'[r] = IntVal(Counter(store'))
                   /\ (pc[r] = "else" /\ pc'[r] = "done") =>
                         response'[r] = Response(200, SuccessText(Format(page_views[r])))
      ]_vars

\* Against the server, the first request failed with the apology and the
\* second, arriving after it, was served 200 with the first count by the one
\* client ever constructed.
C22_Witness ==
    \E r1, r2 \in Reqs :
       /\ r1 < r2 /\ ~mocked /\ expired = 0
       /\ Done(r1) /\ GetRoot(r1) /\ incrKeys[r1] = <<"page_views">>
       /\ response[r1] = Response(500, ApologyText)
       /\ Done(r2) /\ GetRoot(r2)
       /\ page_views[r2] = IntVal(Counter(store0) + 1)
       /\ response[r2] = Response(200, SuccessText(IntStr(Counter(store0) + 1)))
       /\ cache = <<1>> /\ Len(fromUrlArgs) = 1

(***************************************************************************)
(* C23.  A call of redis() in which Redis.from_url raises stores no handle:*)
(* as long as no request has got a client from redis(), none is stored.    *)
(* And only the first successful construction is stored for later calls:   *)
(* handles being numbered in the order of the calls of Redis.from_url, the *)
(* stored handle is never a later one than a handle a request holds.       *)
(***************************************************************************)
C23_OnlyFirstSuccessCached ==
    /\ (\A r \in Reqs : pc[r] # "incr" /\ incrKeys[r] = <<>>) => cache = <<>>
    /\ \A r \in Reqs :
          client[r] # 0 => cache # <<>> /\ cache[1] <= client[r]

\* The failure alone, over the steps: a failed construction stores nothing,
\* raises to the caller, and no incr call follows; a call made while no handle
\* is stored attempts the construction; and a successful construction made
\* while no handle is stored stores the handle it returns.
C23_FailureNotCached ==
    [][ \A r \in Reqs :
          /\ (pc[r] = "from_url" /\ pc'[r] = "raised") =>
                /\ cache' = cache
                /\ client'[r] = 0
                /\ exc'[r] # NoExc
                /\ incrKeys'[r] = <<>>
          /\ (pc[r] = "index" /\ pc'[r] # "index" /\ cache = <<>>) =>
                pc'[r] = "from_url"
          /\ (pc[r] = "from_url" /\ pc'[r] = "incr" /\ cache = <<>>) =>
                cache' = <<client'[r]>>
      ]_vars

====
